---- MODULE Spec2Model ----
(***************************************************************************)
(* Model of src/task/03-date-tasks.js: five pure date utilities.  A call   *)
(* is a two-step machine: the arguments are chosen (pc = "ready"), the     *)
(* function body runs and leaves its return value in result (pc = "done"). *)
(* Strings are sequences of one-character strings.  A Date is modelled by  *)
(* what its accessors return: milliseconds since the epoch for getTime(),  *)
(* a record of calendar fields for getFullYear/getUTCHours/getUTCMinutes.  *)
(* Numbers that the source computes with fractions are IEEE-754 doubles,   *)
(* evaluated operation by operation with round-to-nearest-even.            *)
(***************************************************************************)
EXTENDS Integers, Sequences, FiniteSets, TLC

VARIABLES fn, value, startDate, endDate, date, result, pc

vars == <<fn, value, startDate, endDate, date, result, pc>>

(* ------------------------------ bounds -------------------------------- *)
MaxSufLen == 5
MaxHours == 31
MinYear == 1895
MaxYear == 2105

(* ------------------------- string primitives -------------------------- *)
Digits == <<"0", "1", "2", "3", "4", "5", "6", "7", "8", "9">>

IsDigit(c) == \E i \in 1..10 : Digits[i] = c

\* Number.prototype.toString for an integer
RECURSIVE toString(_)
toString(n) ==
    IF n < 0 THEN <<"-">> \o toString(0 - n)
    ELSE IF n < 10 THEN <<Digits[n + 1]>>
    ELSE toString(n \div 10) \o <<Digits[(n % 10) + 1]>>

\* the JavaScript % operator: the result takes the sign of the dividend
JsRem(a, b) == IF a >= 0 THEN a % b ELSE 0 - ((0 - a) % b)

\* String.prototype.search(pat) !== -1 for a literal pattern
Contains(s, pat) ==
    \E i \in 1..(Len(s) - Len(pat) + 1) : SubSeq(s, i, i + Len(pat) - 1) = pat

\* /pat$/.test(s) for a literal pattern
EndsWith(s, pat) ==
    /\ Len(s) >= Len(pat)
    /\ SubSeq(s, Len(s) - Len(pat) + 1, Len(s)) = pat

GMT == <<"G", "M", "T">>

\* /GMT\+[0-9]{4}$/.test(s)
EndsWithGmtPlus4(s) ==
    /\ Len(s) >= 8
    /\ SubSeq(s, Len(s) - 7, Len(s) - 5) = GMT
    /\ s[Len(s) - 4] = "+"
    /\ \A i \in (Len(s) - 3)..Len(s) : IsDigit(s[i])

(* --------------------------- the functions ---------------------------- *)
\* Date.parse is the platform's parser: kept as an uninterpreted constructor
\* that records the string it was handed.
Date_parse(s) == [parsed |-> s]

rfcNeedsSuffix(v) ==
    Contains(v, GMT) /\ ~EndsWithGmtPlus4(v) /\ ~EndsWith(v, GMT)

parseDataFromRfc2822(v) ==
    LET value1 == IF rfcNeedsSuffix(v) THEN v \o <<"0", "0">> ELSE v
    IN  Date_parse(value1)

parseDataFromIso8601(v) == Date_parse(v)

getFullYear(d) == d.fullYear
getUTCHours(d) == d.utcHours
getUTCMinutes(d) == d.utcMinutes

isLeapYear_div4only(d) ==
    LET year == getFullYear(d) IN JsRem(year, 4) = 0

isLeapYear(d) ==
    LET year == getFullYear(d)
    IN  IF JsRem(year, 400) = 0 THEN TRUE
        ELSE IF ~(JsRem(year, 100) = 0) /\ JsRem(year, 4) = 0 THEN TRUE
        ELSE FALSE

HOUR_MS == 3600000
MINUTE_MS == 60000
SECOND_MS == 1000

\* lines 109-110 and 112-113: the two-digit padding of minutes and seconds
padField_nozero(n) ==
    IF n = 0 THEN <<"0">>
    ELSE IF n < 10 THEN <<"0">> \o toString(n)
    ELSE toString(n)

padField(n) ==
    IF n = 0 THEN <<"0", "0">>
    ELSE IF n < 10 THEN <<"0">> \o toString(n)
    ELSE toString(n)

timeSpanToString(start, end) ==
    LET span == end - start
        ms == JsRem(span, SECOND_MS)
        seconds == (JsRem(span, MINUTE_MS) - ms) \div SECOND_MS
        minutes == (JsRem(span, HOUR_MS) - seconds * SECOND_MS - ms) \div MINUTE_MS
        hours == (span - JsRem(span, HOUR_MS)) \div HOUR_MS
        hours1 == IF hours = 0 THEN <<"0", "0">>
                  ELSE IF hours < 10 THEN <<"0">> \o toString(hours)
                  ELSE toString(hours)
        minutes1 == padField(minutes)
        seconds1 == padField(seconds)
        \* lines 115-117: the two else-branches assign to hours, not to ms
        ms1 == IF ms = 0 THEN <<"0", "0", "0">> ELSE toString(ms)
        hours2 == IF ms = 0 THEN hours1
                  ELSE IF ms < 100 THEN <<"0">> \o toString(ms)
                  ELSE IF ms < 10 THEN <<"0", "0">> \o toString(ms)
                  ELSE hours1
    IN  hours2 \o <<":">> \o minutes1 \o <<":">> \o seconds1 \o <<".">> \o ms1

(* ----------------------- IEEE-754 double arithmetic -------------------- *)
\* A natural number of any size is a little-endian sequence of limbs in
\* base 2^LimbBits with no leading zero limb; <<>> is zero.
LimbBits == 15
Base == 32768

RECURSIVE Pow2(_)
Pow2(k) == IF k = 0 THEN 1 ELSE 2 * Pow2(k - 1)

RECURSIVE Trim(_)
Trim(a) ==
    IF Len(a) = 0 THEN a
    ELSE IF a[Len(a)] = 0 THEN Trim(SubSeq(a, 1, Len(a) - 1))
    ELSE a

RECURSIVE FromNat(_)
FromNat(n) == IF n = 0 THEN <<>> ELSE <<n % Base>> \o FromNat(n \div Base)

Limb0(a) == IF Len(a) = 0 THEN 0 ELSE a[1]
Rest(a) == IF Len(a) = 0 THEN a ELSE Tail(a)

RECURSIVE AddC(_, _, _)
AddC(a, b, c) ==
    IF Len(a) = 0 /\ Len(b) = 0 THEN (IF c = 0 THEN <<>> ELSE <<c>>)
    ELSE LET x == Limb0(a) + Limb0(b) + c
         IN  <<x % Base>> \o AddC(Rest(a), Rest(b), x \div Base)

BigAdd(a, b) == AddC(a, b, 0)

\* a - b - borrow, for a >= b + borrow
RECURSIVE SubB(_, _, _)
SubB(a, b, borrow) ==
    IF Len(a) = 0 THEN <<>>
    ELSE LET x == Limb0(a) - Limb0(b) - borrow
         IN  IF x < 0 THEN <<x + Base>> \o SubB(Rest(a), Rest(b), 1)
             ELSE <<x>> \o SubB(Rest(a), Rest(b), 0)

BigSub(a, b) == Trim(SubB(a, b, 0))

\* -1, 0, 1 as a < b, a = b, a > b
RECURSIVE CmpFrom(_, _, _)
CmpFrom(a, b, i) ==
    IF i = 0 THEN 0
    ELSE IF a[i] < b[i] THEN 0 - 1
    ELSE IF a[i] > b[i] THEN 1
    ELSE CmpFrom(a, b, i - 1)

BigCmp(a, b) ==
    IF Len(a) < Len(b) THEN 0 - 1
    ELSE IF Len(a) > Len(b) THEN 1
    ELSE CmpFrom(a, b, Len(a))

RECURSIVE MulSmallC(_, _, _)
MulSmallC(a, k, c) ==
    IF Len(a) = 0 THEN (IF c = 0 THEN <<>> ELSE <<c>>)
    ELSE LET x == a[1] * k + c
         IN  <<x % Base>> \o MulSmallC(Tail(a), k, x \div Base)

MulSmall(a, k) == Trim(MulSmallC(a, k, 0))

RECURSIVE BigMul(_, _)
BigMul(a, b) ==
    IF Len(b) = 0 \/ Len(a) = 0 THEN <<>>
    ELSE LET rest == BigMul(a, Tail(b))
         IN  BigAdd(MulSmall(a, b[1]),
                    IF Len(rest) = 0 THEN <<>> ELSE <<0>> \o rest)

\* quotient and remainder of a by a divisor 0 < d < Base
RECURSIVE DivModSmall(_, _)
DivModSmall(a, d) ==
    IF Len(a) = 0 THEN [q |-> <<>>, r |-> 0]
    ELSE LET hi == DivModSmall(Tail(a), d)
             cur == hi.r * Base + a[1]
         IN  [q |-> <<cur \div d>> \o hi.q, r |-> cur % d]

RECURSIVE Zeros(_)
Zeros(n) == IF n = 0 THEN <<>> ELSE <<0>> \o Zeros(n - 1)

ShiftLeft(a, s) ==
    IF Len(a) = 0 THEN <<>>
    ELSE Zeros(s \div LimbBits) \o MulSmall(a, Pow2(s % LimbBits))

ShiftRight(a, s) ==
    LET limbs == s \div LimbBits
    IN  IF Len(a) <= limbs THEN <<>>
        ELSE Trim(DivModSmall(SubSeq(a, limbs + 1, Len(a)), Pow2(s % LimbBits)).q)

RECURSIVE BitLenSmall(_)
BitLenSmall(n) == IF n = 0 THEN 0 ELSE 1 + BitLenSmall(n \div 2)

BitLen(a) ==
    IF Len(a) = 0 THEN 0 ELSE (Len(a) - 1) * LimbBits + BitLenSmall(a[Len(a)])

\* A double is [neg, m, e], standing for (-1)^neg * m * 2^e with m a 53-bit
\* significand; zero is [neg |-> FALSE, m |-> <<>>, e |-> 0].  All values of
\* the function are far from the subnormal and overflow ranges.
MantBits == 53
GuardLen == 70
Zero == [neg |-> FALSE, m |-> <<>>, e |-> 0]

\* the double nearest to (-1)^neg * (n / d) * 2^e, ties to even (0 < d < Base)
RoundRat(neg, n, d, e) ==
    IF Len(n) = 0 THEN Zero
    ELSE LET s == IF BitLen(n) >= GuardLen THEN 0 ELSE GuardLen - BitLen(n)
             dm == DivModSmall(ShiftLeft(n, s), d)
             q == Trim(dm.q)
             k == BitLen(q) - MantBits
             mant0 == ShiftRight(q, k)
             dropped == BigSub(q, ShiftLeft(mant0, k))
             half == ShiftLeft(<<1>>, k - 1)
             c == BigCmp(dropped, half)
             up == c > 0 \/ (c = 0 /\ (dm.r > 0 \/ mant0[1] % 2 = 1))
             mant1 == IF up THEN BigAdd(mant0, <<1>>) ELSE mant0
         IN  IF BitLen(mant1) > MantBits
             THEN [neg |-> neg, m |-> ShiftRight(mant1, 1), e |-> e - s + k + 1]
             ELSE [neg |-> neg, m |-> mant1, e |-> e - s + k]

\* Number(n) for an integer n
fromInt(n) == RoundRat(n < 0, FromNat(IF n < 0 THEN 0 - n ELSE n), 1, 0)

\* a / n for an integer literal n > 0
flDivInt(a, n) == RoundRat(a.neg, a.m, n, a.e)

flMul(a, b) == RoundRat(a.neg # b.neg, BigMul(a.m, b.m), 1, a.e + b.e)

flNeg(a) == IF Len(a.m) = 0 THEN a ELSE [a EXCEPT !.neg = ~a.neg]

flAdd(a, b) ==
    IF Len(a.m) = 0 THEN b
    ELSE IF Len(b.m) = 0 THEN a
    ELSE LET emin == IF a.e < b.e THEN a.e ELSE b.e
             A == ShiftLeft(a.m, a.e - emin)
             B == ShiftLeft(b.m, b.e - emin)
         IN  IF a.neg = b.neg THEN RoundRat(a.neg, BigAdd(A, B), 1, emin)
             ELSE IF BigCmp(A, B) >= 0 THEN RoundRat(a.neg, BigSub(A, B), 1, emin)
             ELSE RoundRat(b.neg, BigSub(B, A), 1, emin)

flSub(a, b) == flAdd(a, flNeg(b))

\* Math.abs
Abs(a) == [a EXCEPT !.neg = FALSE]

\* a > b
flGreater(a, b) ==
    LET diff == flSub(a, b) IN Len(diff.m) > 0 /\ ~diff.neg

\* Math.PI = 0x1.921fb54442d18p+1 = 7074237752028440 * 2^-51
PI == [neg |-> FALSE, m |-> <<11544, 10376, 2029, 201>>, e |-> 0 - 51]

(* ------------------------------ the clock ----------------------------- *)
\* line 141: minutes * 360 / 60
minutesArrowAngle(minutes) == flDivInt(fromInt(minutes * 360), 60)

hoursArrowAngle_no12(hours, minutes) ==
    flDivInt(flMul(flAdd(fromInt(hours), flDivInt(fromInt(minutes), 60)),
                   fromInt(360)), 12)

hoursArrowAngle_nomin(hours, minutes) ==
    flDivInt(flMul(fromInt(hours % 12), fromInt(360)), 12)

\* line 142: ((hours % 12) + minutes / 60) * 360 / 12
hoursArrowAngle(hours, minutes) ==
    flDivInt(flMul(flAdd(fromInt(hours % 12), flDivInt(fromInt(minutes), 60)),
                   fromInt(360)), 12)

foldAngle_nofold(angle) == angle

\* line 145
foldAngle(angle) ==
    IF flGreater(angle, fromInt(180)) THEN flSub(fromInt(360), angle) ELSE angle

\* line 147: angle * Math.PI / 180
toRadians(angle) == flDivInt(flMul(angle, PI), 180)

\* lines 138-145: the angle in degrees that reaches line 147
angleInDegrees(d) ==
    LET hours == getUTCHours(d)
        minutes == getUTCMinutes(d)
    IN  foldAngle(Abs(flSub(hoursArrowAngle(hours, minutes), minutesArrowAngle(minutes))))

angleBetweenClockHands(d) == toRadians(angleInDegrees(d))

(* ------------------------------ inputs -------------------------------- *)
RECURSIVE SeqsUpTo(_, _)
SeqsUpTo(S, n) ==
    IF n = 0 THEN {<<>>}
    ELSE LET shorter == SeqsUpTo(S, n - 1)
         IN  shorter \cup {s \o <<c>> : s \in shorter, c \in S}

SufAlphabet == {"T", "+", "-", "0", "7"}
Prefixes == {<<>>, <<"G", "M">>, GMT, <<"1", " ">> \o GMT, <<"U", "T", "C">>}
Strings == {p \o s : p \in Prefixes, s \in SeqsUpTo(SufAlphabet, MaxSufLen)}

FieldSamples == {0, 1, 9, 10, 59}
MsSamples == {0, 1, 5, 9, 10, 50, 99, 100, 250, 453, 999}
StartSamples == {0, 245}
Instants == {h * HOUR_MS + m * MINUTE_MS + s * SECOND_MS + k :
                h \in 0..MaxHours, m \in FieldSamples, s \in FieldSamples, k \in MsSamples}

UTCHours == 0..23
UTCMinutes == 0..59
NoDate == [fullYear |-> 1970, utcHours |-> 0, utcMinutes |-> 0]

Init ==
    /\ pc = "ready"
    /\ result = <<>>
    /\ \/ /\ fn \in {"parseDataFromRfc2822", "parseDataFromIso8601"}
          /\ value \in Strings
          /\ startDate = 0 /\ endDate = 0 /\ date = NoDate
       \/ /\ fn = "isLeapYear"
          /\ date \in [fullYear : MinYear..MaxYear, utcHours : {0}, utcMinutes : {0}]
          /\ value = <<>> /\ startDate = 0 /\ endDate = 0
       \/ /\ fn = "timeSpanToString"
          /\ startDate \in StartSamples
          /\ endDate \in Instants
          /\ value = <<>> /\ date = NoDate
       \/ /\ fn = "angleBetweenClockHands"
          /\ date \in [fullYear : {2016}, utcHours : UTCHours, utcMinutes : UTCMinutes]
          /\ value = <<>> /\ startDate = 0 /\ endDate = 0

(* ------------------------------ actions ------------------------------- *)
Return(r) ==
    /\ result' = r
    /\ pc' = "done"
    /\ UNCHANGED <<fn, value, startDate, endDate, date>>

CallParseRfc2822 ==
    /\ pc = "ready" /\ fn = "parseDataFromRfc2822"
    /\ Return(parseDataFromRfc2822(value))

CallParseIso8601 ==
    /\ pc = "ready" /\ fn = "parseDataFromIso8601"
    /\ Return(parseDataFromIso8601(value))

CallIsLeapYear ==
    /\ pc = "ready" /\ fn = "isLeapYear"
    /\ Return(isLeapYear(date))

CallTimeSpanToString ==
    /\ pc = "ready" /\ fn = "timeSpanToString"
    /\ Return(timeSpanToString(startDate, endDate))

CallAngleBetweenClockHands ==
    /\ pc = "ready" /\ fn = "angleBetweenClockHands"
    /\ Return(angleBetweenClockHands(date))

Next ==
    \/ CallParseRfc2822
    \/ CallParseIso8601
    \/ CallIsLeapYear
    \/ CallTimeSpanToString
    \/ CallAngleBetweenClockHands

Spec == Init /\ [][Next]_vars

(* ------------------------- reading the output ------------------------- *)
Done(f) == pc = "done" /\ fn = f

\* index of the first occurrence of c in s at or after position from,
\* Len(s) + 1 when there is none
FirstIdx(s, c, from) ==
    CHOOSE i \in from..(Len(s) + 1) :
        /\ (i = Len(s) + 1 \/ s[i] = c)
        /\ \A j \in from..(i - 1) : s[j] # c

Colon1(s) == FirstIdx(s, ":", 1)
Colon2(s) == FirstIdx(s, ":", Colon1(s) + 1)
Dot(s) == FirstIdx(s, ".", Colon2(s) + 1)

HoursText(s) == SubSeq(s, 1, Colon1(s) - 1)
MinutesText(s) == SubSeq(s, Colon1(s) + 1, Colon2(s) - 1)
SecondsText(s) == SubSeq(s, Colon2(s) + 1, Dot(s) - 1)
MsText(s) == SubSeq(s, Dot(s) + 1, Len(s))

RECURSIVE ZeroPad(_, _)
ZeroPad(s, w) == IF Len(s) >= w THEN s ELSE ZeroPad(<<"0">> \o s, w)

AllDigits(s) == \A i \in 1..Len(s) : IsDigit(s[i])

SpanCall == Done("timeSpanToString") /\ startDate <= endDate
Elapsed == endDate - startDate

(* ------------------------------ claims -------------------------------- *)

\* C1: for start <= end, the text after the '.' in the string returned by
\* timeSpanToString is exactly 3 digits and equals (end - start) mod 1000
\* zero-padded to width 3.
C1_MsFieldPadded ==
    SpanCall =>
        /\ Len(MsText(result)) = 3
        /\ AllDigits(MsText(result))
        /\ MsText(result) = ZeroPad(toString(Elapsed % 1000), 3)

\* C2: for start <= end, the text before the first ':' is the decimal
\* rendering of floor((end - start) / 3600000), zero-padded to at least 2
\* digits and not reduced modulo 24, whatever the millisecond remainder is.
C2_HoursField ==
    SpanCall => HoursText(result) = ZeroPad(toString(Elapsed \div 3600000), 2)

\* C3: for start <= end, the minutes and seconds fields are each exactly 2
\* digits, equal to floor(span / 60000) mod 60 and floor(span / 1000) mod 60,
\* and zero is rendered "00".
C3_MinutesSecondsFields ==
    SpanCall =>
        /\ Len(MinutesText(result)) = 2 /\ AllDigits(MinutesText(result))
        /\ Len(SecondsText(result)) = 2 /\ AllDigits(SecondsText(result))
        /\ MinutesText(result) = ZeroPad(toString((Elapsed \div 60000) % 60), 2)
        /\ SecondsText(result) = ZeroPad(toString((Elapsed \div 1000) % 60), 2)
        /\ ((Elapsed \div 60000) % 60 = 0 => MinutesText(result) = <<"0", "0">>)
        /\ ((Elapsed \div 1000) % 60 = 0 => SecondsText(result) = <<"0", "0">>)

\* a span of 9 s 5 ms taken from a start of 245 ms: zero minutes, a one-digit
\* second count, and a millisecond remainder below 100
C3_Witness ==
    /\ SpanCall
    /\ startDate = 245
    /\ Elapsed % 1000 \in 1..99
    /\ MinutesText(result) = <<"0", "0">>
    /\ SecondsText(result) = <<"0", "9">>

\* C4: isLeapYear returns true exactly when the local year is divisible by
\* 400, or divisible by 4 and not by 100 (1900 false, 2000 true, 2001 false,
\* 2012 true, 2015 false).
C4_LeapYearRule ==
    Done("isLeapYear") =>
        LET Y == date.fullYear
        IN  /\ result = ((Y % 400 = 0) \/ (Y % 4 = 0 /\ Y % 100 # 0))
            /\ (Y \in {1900, 2001, 2015} => result = FALSE)
            /\ (Y \in {2000, 2012} => result = TRUE)

C4_Witness == Done("isLeapYear") /\ date.fullYear = 1900 /\ result = FALSE

\* the angle of the claim, in half degrees: |((h mod 12) + m/60) * 30 - m * 6|,
\* replaced by 360 degrees minus it when it exceeds 180 degrees
ClaimedHalfDegrees(h, m) ==
    LET diff == 60 * (h % 12) + m - 12 * m
        raw == IF diff < 0 THEN 0 - diff ELSE diff
    IN  IF raw > 360 THEN 720 - raw ELSE raw

\* d * Math.PI / 180 for that d, which is a multiple of 0.5 and so a double
ClaimedRadians(h, m) ==
    flDivInt(flMul(RoundRat(FALSE, FromNat(ClaimedHalfDegrees(h, m)), 2, 0), PI), 180)

HalfPI == [PI EXCEPT !.e = PI.e - 1]

\* 2^-49, about 1.8e-15
Tolerance == RoundRat(FALSE, <<1>>, 1, 0 - 49)

ClockCall == Done("angleBetweenClockHands")

\* C5 (as stated): angleBetweenClockHands returns d * pi / 180 for the d
\* above; the result depends only on h mod 12 and m; it is 0 at 0:00, pi/2 at
\* 3:00, 9:00 and 21:00, pi at 6:00 and 18:00.
C5_ClockAngleValue ==
    ClockCall =>
        LET h == date.utcHours
            m == date.utcMinutes
        IN  /\ result = ClaimedRadians(h, m)
            /\ result = angleBetweenClockHands([date EXCEPT !.utcHours = (h + 12) % 24])
            /\ (h = 0 /\ m = 0 => result = Zero)
            /\ (h \in {3, 9, 21} /\ m = 0 => result = HalfPI)
            /\ (h \in {6, 18} /\ m = 0 => result = PI)

\* C5 (amended): the returned double is within 2^-49 of d * Math.PI / 180 and
\* equal to it when the minute is 0; the result depends only on h mod 12 and
\* m; it is 0 at 0:00, Math.PI/2 at 3:00, 9:00 and 21:00, Math.PI at 6:00 and
\* 18:00.
C5_ClockAngleWithinRounding ==
    ClockCall =>
        LET h == date.utcHours
            m == date.utcMinutes
        IN  /\ ~flGreater(Abs(flSub(result, ClaimedRadians(h, m))), Tolerance)
            /\ (m = 0 => result = ClaimedRadians(h, m))
            /\ result = angleBetweenClockHands([date EXCEPT !.utcHours = (h + 12) % 24])
            /\ (h = 0 /\ m = 0 => result = Zero)
            /\ (h \in {3, 9, 21} /\ m = 0 => result = HalfPI)
            /\ (h \in {6, 18} /\ m = 0 => result = PI)

\* 20:01, an evening hour whose raw difference (about 234.5 degrees) is folded
\* to 125.49999999999997 degrees; the double returned is 2.190388211252883,
\* while 125.5 * Math.PI / 180 is 2.1903882112528836
C5_Witness ==
    /\ ClockCall
    /\ date.utcHours = 20 /\ date.utcMinutes = 1
    /\ result = [neg |-> FALSE, m |-> <<38, 590, 6057, 140>>, e |-> 0 - 51]
    /\ result # ClaimedRadians(20, 1)

\* C6: the returned angle lies in [0, Math.PI], the angle in degrees before
\* the conversion in [0, 180].
C6_ClockAngleRange ==
    ClockCall =>
        /\ ~result.neg
        /\ ~flGreater(result, PI)
        /\ ~angleInDegrees(date).neg
        /\ ~flGreater(angleInDegrees(date), fromInt(180))

\* 0:59, where the raw difference is 324.5 degrees and the result 35.5 degrees
C6_Witness ==
    /\ ClockCall
    /\ date.utcHours = 0 /\ date.utcMinutes = 59
    /\ result = [neg |-> FALSE, m |-> <<9835, 14375, 20169, 158>>, e |-> 0 - 53]

\* "GMT" followed by a sign and exactly four digits that end the string
EndsWithGmtSigned4(s) ==
    /\ Len(s) >= 8
    /\ SubSeq(s, Len(s) - 7, Len(s) - 5) = GMT
    /\ s[Len(s) - 4] \in {"+", "-"}
    /\ \A i \in (Len(s) - 3)..Len(s) : IsDigit(s[i])

\* C7: the string parseDataFromRfc2822 hands to Date.parse is v followed by
\* "00" exactly when v contains "GMT", does not end with "GMT" and a four-digit
\* offset of either sign, and does not end with a bare "GMT"; otherwise it is
\* v unchanged.
C7_RfcSuffixRule ==
    Done("parseDataFromRfc2822") =>
        result.parsed =
            IF Contains(value, GMT) /\ ~EndsWithGmtSigned4(value) /\ ~EndsWith(value, GMT)
            THEN value \o <<"0", "0">>
            ELSE value

\* C10: over all whole-minute UTC times the angle is 0 only at 0:00 and 12:00,
\* pi only at 6:00 and 18:00, and strictly between 0 and pi at every other time.
C10_ExtremesOnlyOnTheHour ==
    ClockCall =>
        LET h == date.utcHours
            m == date.utcMinutes
        IN  /\ (result = Zero => m = 0 /\ h \in {0, 12})
            /\ (result = PI => m = 0 /\ h \in {6, 18})
            /\ (~(m = 0 /\ h \in {0, 6, 12, 18}) =>
                    flGreater(result, Zero) /\ flGreater(PI, result))

\* 1:05, the whole-minute time nearest to a coincidence of the hands (2.5 degrees)
C10_Witness ==
    /\ ClockCall
    /\ date.utcHours = 1 /\ date.utcMinutes = 5
    /\ result = [neg |-> FALSE, m |-> <<17543, 5582, 23649, 178>>, e |-> 0 - 57]

====
